---- MODULE Spec2Model ----
(***************************************************************************)
(* A model of python/jittor/__init__.py: the scoped flag and log-capture   *)
(* contexts, the Module parameter tree (parameters, save, load, eval,      *)
(* train) and the process-exit hooks.                                      *)
(*                                                                         *)
(* Python's None is the empty sequence <<>> and a present value x is <<x>>.*)
(* Python strings are sequences of one-character strings, so that join and *)
(* split are computed character by character.                              *)
(***************************************************************************)
EXTENDS Integers, Sequences, FiniteSets, TLC

VARIABLES
    \* ---- ExitHooks / jittor_exit
    exit_code,          \* hooks.exit_code: <<>> or <<code>>
    exception,          \* hooks.exception: <<>> or <<exc>>
    phase,              \* "running", "finalizing" (atexit pending), "done"
    synced,             \* core.sync_all(True) was called by jittor_exit
    exitCalls,          \* history: the exit / excepthook calls made so far
    \* ---- flag_scope / log_capture_scope
    flags,              \* the engine's global flags: name -> value
    single_log_capture, \* the module-level guard (TRUE for True, FALSE for None)
    capturing,          \* LOG: log capture is started
    scopes,             \* the with-statements currently open, innermost last:
                        \* the scope's flags_bk, and as history the flags it
                        \* overrides (keys) and the flags when it was entered
    lastOp,             \* the last scope operation and how it ended
    baseFlags,          \* history: the flags before the outermost open scope
    faulted,            \* the engine has failed a restoring write
    \* ---- Module tree
    tree,               \* the root Module: its attributes in declaration order
    pdata,              \* data of every Var of the saved tree, by attribute path
    pname,              \* name tag of every Var (set by parameters())
    stopGrad,           \* is_stop_grad() of every Var
    is_train,           \* is_train of every node that has the attribute
    backup_grad_state,  \* root.backup_grad_state: <<>> (no attribute) or <<map>>
    file,               \* the checkpoint file: <<>> or <<mapping>>
    freshData,          \* data of the Vars of a second tree of the same shape
    warnings,           \* LOG.w lines written by load_parameters
    modOp               \* the last Module operation, its input and how it ended

exitVars  == <<exit_code, exception, phase, synced, exitCalls>>
scopeVars == <<flags, single_log_capture, capturing, scopes, lastOp, baseFlags,
               faulted>>
modVars   == <<tree, pdata, pname, stopGrad, is_train, backup_grad_state, file,
               freshData, warnings, modOp>>
vars      == <<exitVars, scopeVars, modVars>>

None == << >>
Some(x) == <<x>>

(***************************************************************************)
(* ExitHooks and jittor_exit                                               *)
(***************************************************************************)
MaxExitCode == 1
MaxCalls == 3

\* what a caller may pass to sys.exit: None or an exit status
ExitCodes == {None} \cup {Some(c) : c \in 0..MaxExitCode}
\* the positional arguments of a call of sys.exit: none, or one code
ExitArgs == {<<>>} \cup {<<c>> : c \in ExitCodes}
Exceptions == {"RuntimeError", "KeyboardInterrupt"}

ExitInit ==
    /\ exit_code = None
    /\ exception = None
    /\ phase = "running"
    /\ synced = FALSE
    /\ exitCalls = <<>>

\* def exit(self, code=0): the value bound to code
ExitCodeParam(args) == IF args = <<>> THEN Some(0) ELSE args[1]

\* ExitHooks.exit: records the code, then the original sys.exit raises
\* SystemExit; the program either catches it and runs on, or the interpreter
\* shuts down.
exit(args, caught) ==
    /\ phase = "running"
    /\ Len(exitCalls) < MaxCalls
    /\ exit_code' = ExitCodeParam(args)
    /\ exitCalls' = Append(exitCalls, [op |-> "exit", code |-> ExitCodeParam(args)])
    /\ phase' = IF caught THEN "running" ELSE "finalizing"
    /\ UNCHANGED <<exception, synced, scopeVars, modVars>>

\* ExitHooks.exc_handler, installed as sys.excepthook: called with an uncaught
\* exception.  In a script the interpreter then shuts down; in an interactive
\* session it runs on.
exc_handler(exc, interactive) ==
    /\ phase = "running"
    /\ Len(exitCalls) < MaxCalls
    /\ exception' = Some(exc)
    /\ exitCalls' = Append(exitCalls, [op |-> "exception", code |-> None])
    /\ phase' = IF interactive THEN "running" ELSE "finalizing"
    /\ UNCHANGED <<exit_code, synced, scopeVars, modVars>>

\* the script runs off its end
EndOfScript ==
    /\ phase = "running"
    /\ phase' = "finalizing"
    /\ UNCHANGED <<exit_code, exception, synced, exitCalls, scopeVars, modVars>>

\* the condition under which jittor_exit reaches core.sync_all(True)
ShouldSyncIgnoringException == exit_code = None
ShouldSync == exit_code = None /\ exception = None

\* jittor_exit, registered with atexit
jittor_exit ==
    /\ phase = "finalizing"
    /\ synced' = ShouldSync
    /\ phase' = "done"
    /\ UNCHANGED <<exit_code, exception, exitCalls, scopeVars, modVars>>

ExitNext ==
    \/ \E args \in ExitArgs, caught \in BOOLEAN : exit(args, caught)
    \/ \E exc \in Exceptions, interactive \in BOOLEAN : exc_handler(exc, interactive)
    \/ EndOfScript
    \/ jittor_exit

(***************************************************************************)
(* flag_scope and log_capture_scope                                        *)
(*                                                                         *)
(* flags is the engine's flag object.  getattr(flags, k) raises for a name *)
(* that is no flag; setattr(flags, k, v) raises for a value the flag's     *)
(* setter rejects.  A value read from a flag is one its setter accepts.    *)
(* failAt > 0 is an engine fault: the failAt-th restoring setattr of an    *)
(* __exit__ raises although the value is acceptable; failAt = 0 is none.   *)
(* The engine is taken to fail at most once.                               *)
(***************************************************************************)
MaxDepth == 2

FlagNames == {"log_v", "profiler_enable"}
\* the values the setters accept, and what a caller may pass: these or a value
\* the setters reject
FlagValues == {0, 1}
Rejected == {0 - 1}
SuppliedNames == FlagNames \cup {"no_such_flag"}
SuppliedValues == FlagValues \cup Rejected
HasFlag(k) == k \in FlagNames
SetterAccepts(k, v) == v \in FlagValues

\* **jt_flags: keyword arguments, a dict in the order given, keys distinct
\* (the value passed for a name that is no flag is never looked at)
Items == (FlagNames \X SuppliedValues) \cup {<<"no_such_flag", 0>>}
JtFlags ==
    {jt \in UNION {[1..n -> Items] : n \in 0..Cardinality(SuppliedNames)} :
        \A i, j \in 1..Len(jt) : i # j => jt[i][1] # jt[j][1]}
Keys(items) == {items[i][1] : i \in 1..Len(items)}

\* flag_scope.__exit__: for k,v in self.flags_bk.items(): setattr(flags, k, v)
RECURSIVE RestoreLoop(_, _, _, _)
RestoreLoop(bk, i, fl, failAt) ==
    IF i > Len(bk) THEN [flags |-> fl, raised |-> None]
    ELSE IF i = failAt THEN [flags |-> fl, raised |-> Some("EngineError")]
    ELSE RestoreLoop(bk, i + 1, [fl EXCEPT ![bk[i][1]] = bk[i][2]], failAt)

FlagScopeExitKeepsFirst(bk, fl, failAt) ==
    RestoreLoop(IF bk = <<>> THEN bk ELSE Tail(bk), 1, fl, failAt)
FlagScopeExit(bk, fl, failAt) == RestoreLoop(bk, 1, fl, failAt)

\* the loop of flag_scope.__enter__, up to the first getattr or setattr that
\* raises
RECURSIVE ApplyLoop(_, _, _, _)
ApplyLoop(jt, i, fl, bk) ==
    IF i > Len(jt) THEN [flags |-> fl, flags_bk |-> bk, raised |-> None]
    ELSE LET k == jt[i][1]
             v == jt[i][2]
         IN  IF ~HasFlag(k)
             THEN [flags |-> fl, flags_bk |-> bk, raised |-> Some("AttributeError")]
             ELSE LET bk2 == Append(bk, <<k, fl[k]>>)
                  IN  IF ~SetterAccepts(k, v)
                      THEN [flags |-> fl, flags_bk |-> bk2,
                            raised |-> Some("ValueError")]
                      ELSE ApplyLoop(jt, i + 1, [fl EXCEPT ![k] = v], bk2)

\* flag_scope.__enter__: on an error self.__exit__() runs and the error is
\* raised again, unless __exit__ raises itself.  first is the error of the loop
\* and applied the flags when the loop stopped.
FlagScopeEnterNoUnwind(jt, fl, failAt) ==
    LET a == ApplyLoop(jt, 1, fl, <<>>)
    IN  [flags |-> a.flags, flags_bk |-> a.flags_bk, raised |-> a.raised,
         first |-> a.raised, applied |-> a.flags]
FlagScopeEnter(jt, fl, failAt) ==
    LET a == ApplyLoop(jt, 1, fl, <<>>)
    IN  IF a.raised = None
        THEN [flags |-> a.flags, flags_bk |-> a.flags_bk, raised |-> None,
              first |-> None, applied |-> a.flags]
        ELSE LET x == FlagScopeExit(a.flags_bk, a.flags, failAt)
             IN  [flags |-> x.flags, flags_bk |-> a.flags_bk,
                  raised |-> IF x.raised = None THEN a.raised ELSE x.raised,
                  first |-> a.raised, applied |-> a.flags]

\* log_capture_scope.__enter__
LogCaptureEnterUnguarded(jt, fl, guard, cap, failAt) ==
    LET e == FlagScopeEnter(jt, fl, failAt)
    IN  IF e.raised = None
        THEN [flags |-> e.flags, flags_bk |-> e.flags_bk, guard |-> TRUE,
              capturing |-> TRUE, raised |-> None, first |-> None]
        ELSE [flags |-> e.flags, flags_bk |-> e.flags_bk, guard |-> FALSE,
              capturing |-> FALSE, raised |-> e.raised, first |-> e.first]
LogCaptureEnter(jt, fl, guard, cap, failAt) ==
    IF guard
    THEN [flags |-> fl, flags_bk |-> <<>>, guard |-> guard, capturing |-> cap,
          raised |-> Some("AssertionError"), first |-> Some("AssertionError")]
    ELSE LET e == FlagScopeEnter(jt, fl, failAt)
         IN  IF e.raised = None
             THEN [flags |-> e.flags, flags_bk |-> e.flags_bk, guard |-> TRUE,
                   capturing |-> TRUE, raised |-> None, first |-> None]
             ELSE [flags |-> e.flags, flags_bk |-> e.flags_bk, guard |-> FALSE,
                   capturing |-> FALSE, raised |-> e.raised, first |-> e.first]

\* log_capture_scope.__exit__
LogCaptureExit(bk, fl, guard, cap, failAt) ==
    LET x == FlagScopeExit(bk, fl, failAt)
    IN  IF x.raised = None
        THEN [flags |-> x.flags, guard |-> FALSE, capturing |-> FALSE,
              raised |-> None]
        ELSE [flags |-> x.flags, guard |-> guard, capturing |-> cap,
              raised |-> x.raised]

ScopeInit ==
    /\ flags \in [FlagNames -> FlagValues]
    /\ baseFlags = flags
    /\ single_log_capture = FALSE
    /\ capturing = FALSE
    /\ scopes = <<>>
    /\ lastOp = [op |-> "none"]
    /\ faulted = FALSE

Top == scopes[Len(scopes)]
Pop == SubSeq(scopes, 1, Len(scopes) - 1)

\* with flag_scope(**jt): the __enter__ step.  lastOp.before and
\* lastOp.changed are history: the flags before the enter, and whether the loop
\* had changed a flag when it stopped.
FlagEnter(jt, failAt) ==
    /\ \E e \in {FlagScopeEnter(jt, flags, failAt)} :
           /\ flags' = e.flags
           /\ scopes' = IF e.raised = None
                        THEN Append(scopes, [kind |-> "flag_scope", keys |-> Keys(jt),
                                 flags_bk |-> e.flags_bk, entered |-> flags])
                        ELSE scopes
           /\ lastOp' = [op |-> "enter", kind |-> "flag_scope", before |-> flags,
                         raised |-> e.raised, first |-> e.first,
                         changed |-> e.applied # flags]
    /\ UNCHANGED <<single_log_capture, capturing, baseFlags, faulted, exitVars,
                   modVars>>

\* the end of a flag_scope's with-block: __exit__(*exc), called whether the
\* body finished or raised; it returns None, so a body error propagates.
\* lastOp.expected is history: the flags the scope overrode, each with the
\* value it had when the scope was entered.
FlagExit(bodyRaised, failAt) ==
    /\ scopes # <<>>
    /\ Top.kind = "flag_scope"
    /\ \E x \in {FlagScopeExit(Top.flags_bk, flags, failAt)} :
           /\ flags' = x.flags
           /\ lastOp' = [op |-> "exit", kind |-> "flag_scope",
                         expected |-> [k \in Top.keys |-> Top.entered[k]],
                         raised |-> IF x.raised # None THEN x.raised
                                    ELSE IF bodyRaised THEN Some("BodyError")
                                    ELSE None,
                         restoreRaised |-> x.raised # None]
           /\ faulted' = (faulted \/ x.raised # None)
    /\ scopes' = Pop
    /\ UNCHANGED <<single_log_capture, capturing, baseFlags, exitVars, modVars>>

\* with log_capture_scope(**jt): the __enter__ step
LogEnter(jt, failAt) ==
    /\ \E e \in {LogCaptureEnter(jt, flags, single_log_capture, capturing, failAt)} :
           /\ flags' = e.flags
           /\ single_log_capture' = e.guard
           /\ capturing' = e.capturing
           /\ scopes' = IF e.raised = None
                        THEN Append(scopes, [kind |-> "log_capture_scope",
                                 keys |-> Keys(jt), flags_bk |-> e.flags_bk,
                                 entered |-> flags])
                        ELSE scopes
           /\ lastOp' = [op |-> "enter", kind |-> "log_capture_scope",
                         before |-> flags, guardBefore |-> single_log_capture,
                         capturingBefore |-> capturing, raised |-> e.raised,
                         first |-> e.first]
    /\ UNCHANGED <<baseFlags, faulted, exitVars, modVars>>

\* the end of a log_capture_scope's with-block
LogExit(bodyRaised, failAt) ==
    /\ scopes # <<>>
    /\ Top.kind = "log_capture_scope"
    /\ \E x \in {LogCaptureExit(Top.flags_bk, flags, single_log_capture, capturing,
                               failAt)} :
           /\ flags' = x.flags
           /\ single_log_capture' = x.guard
           /\ capturing' = x.capturing
           /\ lastOp' = [op |-> "exit", kind |-> "log_capture_scope",
                         expected |-> [k \in Top.keys |-> Top.entered[k]],
                         raised |-> IF x.raised # None THEN x.raised
                                    ELSE IF bodyRaised THEN Some("BodyError")
                                    ELSE None,
                         restoreRaised |-> x.raised # None]
           /\ faulted' = (faulted \/ x.raised # None)
    /\ scopes' = Pop
    /\ UNCHANGED <<baseFlags, exitVars, modVars>>

\* the engine's setters accept every restoring write
CanNest == Len(scopes) < MaxDepth
ScopeNext ==
    \/ CanNest /\ \E jt \in JtFlags : FlagEnter(jt, 0)
    \/ \E b \in BOOLEAN : FlagExit(b, 0)
    \/ CanNest /\ \E jt \in JtFlags : LogEnter(jt, 0)
    \/ \E b \in BOOLEAN : LogExit(b, 0)

\* a restoring write at the end of a with-block may raise
FaultAt == 0..(IF faulted THEN 0 ELSE Len(Top.flags_bk))
ScopeFaultNext ==
    \/ CanNest /\ \E jt \in JtFlags : FlagEnter(jt, 0)
    \/ scopes # <<>> /\ \E b \in BOOLEAN, f \in FaultAt : FlagExit(b, f)
    \/ CanNest /\ \E jt \in JtFlags : LogEnter(jt, 0)
    \/ scopes # <<>> /\ \E b \in BOOLEAN, f \in FaultAt : LogExit(b, f)


(***************************************************************************)
(* The Module tree                                                         *)
(*                                                                         *)
(* A Module is its __dict__: the sequence of its attributes in declaration *)
(* order, each [name, kind, sub] with kind "Var" or "Module" and sub the   *)
(* child's own attributes.  Every Var and every Module is owned by one     *)
(* attribute, so the path of attribute names from the root identifies it.  *)
(* The trees hold plain Modules; nn.Sequential is defined in another file. *)
(***************************************************************************)
MaxAttrs == 3

Dot == "."
W == <<"w">>
FC == <<"f", "c">>
AttrNames == {W, FC}
NoneStr == <<"N", "o", "n", "e">>

RECURSIVE Size(_)
Size(node) ==
    IF node = <<>> THEN 0 ELSE 1 + Size(Head(node).sub) + Size(Tail(node))

RECURSIVE TreesUpTo(_)
TreesUpTo(n) ==
    IF n = 0 THEN {<<>>}
    ELSE LET opts == {[name |-> nm, kind |-> "Var", sub |-> <<>>] : nm \in AttrNames}
                     \cup {[name |-> nm, kind |-> "Module", sub |-> s] :
                              nm \in AttrNames, s \in TreesUpTo(n - 1)}
         IN  {node \in UNION {[1..m -> opts] : m \in 0..Cardinality(AttrNames)} :
                 /\ \A i, j \in 1..Len(node) : i # j => node[i].name # node[j].name
                 /\ Size(node) <= n}
Trees == TreesUpTo(MaxAttrs)

\* the attribute paths of the Vars and of the Modules of a tree
RECURSIVE VarPathsFrom(_, _)
VarPathsFrom(node, path) ==
    UNION {IF node[i].kind = "Var" THEN {Append(path, node[i].name)}
           ELSE VarPathsFrom(node[i].sub, Append(path, node[i].name)) :
           i \in 1..Len(node)}
VarPaths(t) == VarPathsFrom(t, <<>>)
RECURSIVE ModulePathsFrom(_, _)
ModulePathsFrom(node, path) ==
    {path} \cup UNION {IF node[i].kind = "Module"
                       THEN ModulePathsFrom(node[i].sub, Append(path, node[i].name))
                       ELSE {} : i \in 1..Len(node)}
ModulePaths(t) == ModulePathsFrom(t, <<>>)

\* str(k) of a traversal key: None for the root, the attribute name below it
Str(k) == IF k = None THEN NoneStr ELSE k[1]

\* sep.join(parts)
RECURSIVE JoinWith(_, _)
JoinWith(parts, sep) ==
    IF parts = <<>> THEN <<>>
    ELSE IF Len(parts) = 1 THEN parts[1]
    ELSE parts[1] \o <<sep>> \o JoinWith(Tail(parts), sep)

\* s.split(sep): the pieces between the separators, empty pieces included
RECURSIVE SplitFrom(_, _, _, _, _)
SplitFrom(s, sep, i, cur, acc) ==
    IF i > Len(s) THEN Append(acc, cur)
    ELSE IF s[i] = sep THEN SplitFrom(s, sep, i + 1, <<>>, Append(acc, cur))
    ELSE SplitFrom(s, sep, i + 1, Append(cur, s[i]), acc)
SplitKeyWhole(key) == <<key>>
SplitKey(key) == SplitFrom(key, Dot, 1, <<>>, <<>>)

\* p.name(".".join(stack[1:]+[str(k2)]))
ParamNameWholeStack(stack, k2) == JoinWith(Append(stack, k2), Dot)
ParamName(stack, k2) == JoinWith(Append(Tail(stack), k2), Dot)

\* Module.parameters: dfs with callback (push str(k), then every Var attribute
\* of the node is appended to ps and named) and callback_leave (pop).
\* st = [ps, stack, names]: the list returned, the stack, the Vars' name tags.
RECURSIVE CollectVars(_, _, _, _)
CollectVars(node, i, path, st) ==
    IF i > Len(node) THEN st
    ELSE IF node[i].kind # "Var" THEN CollectVars(node, i + 1, path, st)
    ELSE LET p == Append(path, node[i].name)
         IN  CollectVars(node, i + 1, path,
                 [st EXCEPT !.ps = Append(@, p),
                            !.names = [@ EXCEPT ![p] = ParamName(st.stack, node[i].name)]])

RECURSIVE ParametersDfs(_, _, _, _)
RECURSIVE ParametersChildren(_, _, _, _)
ParametersDfs(node, k, path, st) ==
    LET entered == CollectVars(node, 1, path, [st EXCEPT !.stack = Append(@, Str(k))])
        visited == ParametersChildren(node, 1, path, entered)
    IN  [visited EXCEPT !.stack = SubSeq(@, 1, Len(@) - 1)]
ParametersChildren(node, i, path, st) ==
    IF i > Len(node) THEN st
    ELSE IF node[i].kind # "Module" THEN ParametersChildren(node, i + 1, path, st)
    ELSE ParametersChildren(node, i + 1, path,
             ParametersDfs(node[i].sub, Some(node[i].name),
                           Append(path, node[i].name), st))

\* self.parameters(): [ps, names], names being the Vars' name tags afterwards
Parameters(t, names) ==
    LET st == ParametersDfs(t, None, <<>>, [ps |-> <<>>, stack |-> <<>>, names |-> names])
    IN  [ps |-> st.ps, names |-> st.names]

\* d[k] = v of a dict kept as the sequence of its items in insertion order
DictSet(d, k, v) ==
    IF \E i \in 1..Len(d) : d[i][1] = k
    THEN [i \in 1..Len(d) |-> IF d[i][1] = k THEN <<k, v>> ELSE d[i]]
    ELSE Append(d, <<k, v>>)

\* Module.save: params_dict[p.name()] = p.data for p in self.parameters()
RECURSIVE SaveLoop(_, _, _, _, _)
SaveLoop(ps, i, names, data, d) ==
    IF i > Len(ps) THEN d
    ELSE SaveLoop(ps, i + 1, names, data, DictSet(d, names[ps[i]], data[ps[i]]))
SaveDict(t, names, data) ==
    LET r == Parameters(t, names) IN SaveLoop(r.ps, 1, r.names, data, <<>>)

\* ---- load_parameters
\* a name no Module of the trees has, and the name of a method of class Module
Absent == <<"x">>
EvalName == <<"e", "v", "a", "l">>
MethodNames == {EvalName}

\* hasattr(v, k) / getattr(v, k) while a key is resolved.  v is what the walk
\* has reached: a Module (with its attributes), a Var, or a bound method.  A Var
\* and a method have none of the attribute names used here.
HasAttr(v, k) ==
    /\ v.kind = "Module"
    /\ \/ \E i \in 1..Len(v.node) : v.node[i].name = k
       \/ k \in MethodNames
GetAttr(v, k) ==
    IF \E i \in 1..Len(v.node) : v.node[i].name = k
    THEN LET a == v.node[CHOOSE i \in 1..Len(v.node) : v.node[i].name = k]
         IN  [kind |-> a.kind, node |-> a.sub, path |-> Append(v.path, k)]
    ELSE [kind |-> "Method", node |-> <<>>, path |-> Append(v.path, k)]

\* the inner loop of load_parameters: for k in key_
RECURSIVE Resolve(_, _, _)
Resolve(v, key_, i) ==
    IF i > Len(key_) THEN [end |-> 0, v |-> v]
    ELSE IF HasAttr(v, key_[i]) THEN Resolve(GetAttr(v, key_[i]), key_, i + 1)
    ELSE [end |-> 1, v |-> v]

\* if n_failed: LOG.w(f"load total {len(params)} params, {n_failed} failed")
SummaryAlways(params, n_failed, warns) ==
    Append(warns, [kind |-> "summary", total |-> Len(params), failed |-> n_failed])
Summary(params, n_failed, warns) ==
    IF n_failed # 0
    THEN Append(warns, [kind |-> "summary", total |-> Len(params), failed |-> n_failed])
    ELSE warns

\* Module.load_parameters(params) on the tree t whose Vars hold data.
\* params is the mapping in iteration order, items <<key, value>>.
\* v.assign exists on a Var only: on anything else the attribute lookup raises
\* and load_parameters ends there, the assignments made so far kept.
RECURSIVE LoadLoop(_, _, _, _, _, _)
LoadLoop(params, i, t, data, n_failed, warns) ==
    IF i > Len(params)
    THEN [data |-> data, warnings |-> Summary(params, n_failed, warns),
          raised |-> None]
    ELSE LET key == params[i][1]
             r == Resolve([kind |-> "Module", node |-> t, path |-> <<>>],
                          SplitKey(key), 1)
         IN  IF r.end = 1
             THEN LoadLoop(params, i + 1, t, data, n_failed + 1,
                           Append(warns, [kind |-> "failed", key |-> key]))
             ELSE IF r.v.kind = "Var"
             THEN LoadLoop(params, i + 1, t,
                           [data EXCEPT ![r.v.path] = params[i][2]], n_failed, warns)
             ELSE [data |-> data, warnings |-> warns,
                   raised |-> Some("AttributeError")]
LoadParameters(params, t, data, warns) == LoadLoop(params, 1, t, data, 0, warns)

\* ---- eval / train
\* the loop of Module.eval over self.parameters(): a Var not yet in
\* backup_grad_state is entered with not p.is_stop_grad(); every Var is stopped
RECURSIVE EvalLoop(_, _, _, _)
EvalLoop(ps, i, bk, sg) ==
    IF i > Len(ps) THEN [backup |-> bk, stopGrad |-> sg]
    ELSE LET p == ps[i]
             bk2 == IF p \in DOMAIN bk THEN bk ELSE bk @@ (p :> ~sg[p])
         IN  EvalLoop(ps, i + 1, bk2, [sg EXCEPT ![p] = TRUE])

\* the loop of Module.train: start_grad for the Vars the backup holds as True
RECURSIVE TrainLoop(_, _, _, _)
TrainLoop(ps, i, bk, sg) ==
    IF i > Len(ps) THEN sg
    ELSE LET p == ps[i]
         IN  TrainLoop(ps, i + 1, bk,
                 IF p \in DOMAIN bk /\ bk[p] THEN [sg EXCEPT ![p] = FALSE] ELSE sg)

\* the dfs of eval and train: is_train is set on every Module that has it
SetIsTrain(it, value) ==
    [m \in DOMAIN it |-> IF it[m] = None THEN None ELSE Some(value)]

EmptyMap == [p \in {} |-> FALSE]

\* the data a Var may hold; a Var of a tree just constructed holds 0
Data == {1, 2}

\* a tree as constructed: no Var named yet, nothing saved or loaded
ModInit(t) ==
    /\ tree = t
    /\ pname = [p \in VarPaths(t) |-> <<>>]
    /\ file = None
    /\ freshData = [p \in VarPaths(t) |-> 0]
    /\ warnings = <<>>
    /\ backup_grad_state = None
    /\ modOp = [op |-> "none"]

TreeInit ==
    /\ \E t \in Trees : ModInit(t)
    /\ pdata \in [VarPaths(tree) -> Data]
    /\ stopGrad = [p \in VarPaths(tree) |-> FALSE]
    /\ is_train = [m \in ModulePaths(tree) |-> None]

LoadInit ==
    /\ \E t \in Trees : ModInit(t)
    /\ pdata = [p \in VarPaths(tree) |-> 0]
    /\ stopGrad = [p \in VarPaths(tree) |-> FALSE]
    /\ is_train = [m \in ModulePaths(tree) |-> None]

GradInit ==
    /\ \E t \in Trees : ModInit(t)
    /\ pdata = [p \in VarPaths(tree) |-> 0]
    /\ stopGrad \in [VarPaths(tree) -> BOOLEAN]
    /\ is_train \in [ModulePaths(tree) -> {None, Some(TRUE)}]

ModIdle ==
    /\ ModInit(<<>>)
    /\ pdata = [p \in {} |-> 0]
    /\ stopGrad = [p \in {} |-> FALSE]
    /\ is_train = [m \in {<<>>} |-> None]

ScopeIdle ==
    /\ flags = [k \in FlagNames |-> 0]
    /\ baseFlags = flags
    /\ single_log_capture = FALSE
    /\ capturing = FALSE
    /\ scopes = <<>>
    /\ lastOp = [op |-> "none"]
    /\ faulted = FALSE

\* m.parameters().  modOp.ret is the list returned, each Var with its name tag
\* at the return; modOp.prev is history: what the call just before returned.
CallParameters ==
    /\ LET r == Parameters(tree, pname)
       IN  /\ pname' = r.names
           /\ modOp' = [op |-> "parameters",
                        ret |-> [i \in 1..Len(r.ps) |-> <<r.ps[i], r.names[r.ps[i]]>>],
                        prev |-> IF modOp.op = "parameters" THEN Some(modOp.ret)
                                 ELSE None]
    /\ UNCHANGED <<tree, pdata, stopGrad, is_train, backup_grad_state, file,
                   freshData, warnings, exitVars, scopeVars>>

\* m.save(path): the mapping is pickled to the file
Save ==
    /\ file' = Some(SaveDict(tree, pname, pdata))
    /\ pname' = Parameters(tree, pname).names
    /\ modOp' = [op |-> "save"]
    /\ UNCHANGED <<tree, pdata, stopGrad, is_train, backup_grad_state, freshData,
                   warnings, exitVars, scopeVars>>

\* fresh.load(path) of a native checkpoint, on a second tree of the same shape:
\* self.load_parameters(pickle.load(f))
Load ==
    /\ file # None
    /\ LET r == LoadParameters(file[1], tree, freshData, warnings)
       IN  /\ freshData' = r.data
           /\ warnings' = r.warnings
           /\ modOp' = [op |-> "load", params |-> file[1], before |-> freshData,
                        raised |-> r.raised]
    /\ UNCHANGED <<tree, pdata, pname, stopGrad, is_train, backup_grad_state, file,
                   exitVars, scopeVars>>

\* the checkpoint keys tried on a tree: the names of its Vars and Modules, a
\* name the root lacks, a method of the root, and names that go on below a Var
CheckpointKeys(t) ==
    {JoinWith(p, Dot) : p \in VarPaths(t) \cup (ModulePaths(t) \ {<<>>})}
    \cup {Absent, EvalName}
    \cup {JoinWith(Append(p, Absent), Dot) : p \in VarPaths(t)}
MaxParams == 2
Checkpoints(t) ==
    {c \in UNION {[1..n -> CheckpointKeys(t) \X Data] : n \in 0..MaxParams} :
        \A i, j \in 1..Len(c) : i # j => c[i][1] # c[j][1]}

\* fresh.load_parameters(params), called on the tree as constructed
CallLoadParameters(params) ==
    /\ LET r == LoadParameters(params, tree, freshData, warnings)
       IN  /\ freshData' = r.data
           /\ warnings' = r.warnings
           /\ modOp' = [op |-> "load_parameters", params |-> params,
                        before |-> freshData, raised |-> r.raised]
    /\ UNCHANGED <<tree, pdata, pname, stopGrad, is_train, backup_grad_state, file,
                   exitVars, scopeVars>>

\* m.eval() on the root.  modOp.before is history: the tracking flags before
\* this eval(), or, when eval() is called again with nothing in between, before
\* the first of these calls.
InEval == modOp.op \in {"eval"}
Eval ==
    /\ LET r == Parameters(tree, pname)
           e == EvalLoop(r.ps, 1,
                         IF backup_grad_state = None THEN EmptyMap
                         ELSE backup_grad_state[1], stopGrad)
       IN  /\ pname' = r.names
           /\ backup_grad_state' = Some(e.backup)
           /\ stopGrad' = e.stopGrad
    /\ is_train' = SetIsTrain(is_train, FALSE)
    /\ modOp' = [op |-> "eval", before |-> IF InEval THEN modOp.before ELSE stopGrad]
    /\ UNCHANGED <<tree, pdata, file, freshData, warnings, exitVars, scopeVars>>

\* m.train() on the root
Train ==
    /\ is_train' = SetIsTrain(is_train, TRUE)
    /\ IF backup_grad_state # None
       THEN LET r == Parameters(tree, pname)
            IN  /\ pname' = r.names
                /\ stopGrad' = TrainLoop(r.ps, 1, backup_grad_state[1], stopGrad)
       ELSE UNCHANGED <<pname, stopGrad>>
    /\ modOp' = [op |-> "train", afterEval |-> InEval,
                 before |-> IF InEval THEN modOp.before ELSE stopGrad]
    /\ UNCHANGED <<tree, pdata, backup_grad_state, file, freshData, warnings,
                   exitVars, scopeVars>>

\* p.stop_grad() / p.start_grad() called on one parameter by the program
StopGrad(p) ==
    /\ ~stopGrad[p]
    /\ stopGrad' = [stopGrad EXCEPT ![p] = TRUE]
    /\ modOp' = [op |-> "stop_grad"]
    /\ UNCHANGED <<tree, pdata, pname, is_train, backup_grad_state, file, freshData,
                   warnings, exitVars, scopeVars>>
StartGrad(p) ==
    /\ stopGrad[p]
    /\ stopGrad' = [stopGrad EXCEPT ![p] = FALSE]
    /\ modOp' = [op |-> "start_grad"]
    /\ UNCHANGED <<tree, pdata, pname, is_train, backup_grad_state, file, freshData,
                   warnings, exitVars, scopeVars>>

(***************************************************************************)
(* Specifications                                                          *)
(***************************************************************************)
\* the exit hooks
InitExit == ExitInit /\ ScopeIdle /\ ModIdle
SpecExit == InitExit /\ [][ExitNext]_vars

\* the scopes, over an engine whose setters accept every restoring write
InitScope == ExitInit /\ ScopeInit /\ ModIdle
SpecScope == InitScope /\ [][ScopeNext]_vars
\* the scopes, over an engine whose restoring writes may raise
SpecScopeFault == InitScope /\ [][ScopeFaultNext]_vars

\* parameters, save and load on two trees of one shape
InitTree == ExitInit /\ ScopeIdle /\ TreeInit
NextTree == CallParameters \/ Save \/ Load
SpecTree == InitTree /\ [][NextTree]_vars

\* load_parameters with a checkpoint mapping
InitLoad == ExitInit /\ ScopeIdle /\ LoadInit
NextLoad ==
    modOp.op = "none" /\ \E params \in Checkpoints(tree) : CallLoadParameters(params)
SpecLoad == InitLoad /\ [][NextLoad]_vars

\* eval, train and the per-parameter toggles
InitGrad == ExitInit /\ ScopeIdle /\ GradInit
NextGrad ==
    \/ Eval
    \/ Train
    \/ \E p \in VarPaths(tree) : StopGrad(p)
    \/ \E p \in VarPaths(tree) : StartGrad(p)
SpecGrad == InitGrad /\ [][NextGrad]_vars

(***************************************************************************)
(* Properties                                                              *)
(***************************************************************************)
LogScopesOpen == {i \in 1..Len(scopes) : scopes[i].kind = "log_capture_scope"}

\* C2: once a scope has exited, after a body that finished or raised, every
\* flag it overrode holds the value it had when the scope was entered; with no
\* scope open the flags are those before the first enter.
C2_ExitRestoresFlags ==
    /\ lastOp.op = "exit" =>
          \A k \in DOMAIN lastOp.expected : flags[k] = lastOp.expected[k]
    /\ scopes = <<>> => flags = baseFlags
\* an inner scope left by an error, the outer scope still open, the flag put
\* back to the outer scope's value and not to the value before any scope
C2_Witness ==
    /\ lastOp.op = "exit"
    /\ lastOp.raised = Some("BodyError")
    /\ scopes # <<>>
    /\ \E k \in DOMAIN lastOp.expected \cap Top.keys :
          /\ flags[k] = lastOp.expected[k]
          /\ flags[k] # baseFlags[k]

\* C3: a flag_scope.__enter__ that fails leaves every flag as it was before the
\* enter and raises the error of the getattr or setattr that failed.
C3_FailedEnterUnwinds ==
    (lastOp.op = "enter" /\ lastOp.kind = "flag_scope" /\ lastOp.raised # None) =>
        /\ flags = lastOp.before
        /\ lastOp.raised = lastOp.first
\* the enter failed on a setattr after it had changed an earlier flag
C3_Witness ==
    /\ lastOp.op = "enter"
    /\ lastOp.kind = "flag_scope"
    /\ lastOp.raised = Some("ValueError")
    /\ lastOp.changed
    /\ flags = lastOp.before

\* C4: at most one log_capture_scope is open; an enter made while the guard is
\* held raises AssertionError and changes neither the flags, the capture, the
\* guard nor the open scopes; the scope that holds the guard clears it and
\* stops the capture when it exits.
C4_SingleLogCapture ==
    /\ [](Cardinality(LogScopesOpen) <= 1)
    /\ []((lastOp.op = "exit" /\ lastOp.kind = "log_capture_scope") =>
             (~single_log_capture /\ ~capturing /\ lastOp.raised # Some("EngineError")))
    /\ [][(single_log_capture /\ lastOp'.op = "enter"
              /\ lastOp'.kind = "log_capture_scope") =>
             (/\ lastOp'.raised = Some("AssertionError")
              /\ UNCHANGED <<flags, capturing, single_log_capture, scopes>>)]_vars
\* a second enter was refused while the first scope is open
C4_Witness ==
    /\ lastOp.op = "enter"
    /\ lastOp.kind = "log_capture_scope"
    /\ lastOp.raised = Some("AssertionError")
    /\ Cardinality(LogScopesOpen) = 1
    /\ single_log_capture
    /\ capturing

\* C10: the guard is held, and the capture is on, only while a
\* log_capture_scope is open; whenever none is open a log_capture_scope can be
\* entered.
C10_GuardOnlyWhileOpen ==
    (single_log_capture \/ capturing) => LogScopesOpen # {}

\* C9: at shutdown the synchronization is forced exactly when the run made no
\* exit call that recorded an exit code and had no uncaught exception.
ExitCodeCalls ==
    {i \in 1..Len(exitCalls) : exitCalls[i].op = "exit" /\ exitCalls[i].code # None}
ExceptionCalls == {i \in 1..Len(exitCalls) : exitCalls[i].op = "exception"}
ExitCallsMade == {i \in 1..Len(exitCalls) : exitCalls[i].op = "exit"}
C9_SyncIffNoExitCodeNoException ==
    phase = "done" => (synced <=> (ExitCodeCalls = {} /\ ExceptionCalls = {}))
\* C9 as amended: the synchronization is forced exactly when no uncaught
\* exception was recorded and the last exit call, if any, recorded None.
C9_SyncIffLastExitNone ==
    phase = "done" =>
        (synced <=> /\ ExceptionCalls = {}
                    /\ \A i \in ExitCallsMade :
                          (\A j \in ExitCallsMade : j <= i) => exitCalls[i].code = None)
\* an exit code was recorded, a later exit(None) replaced it, and jittor_exit
\* synchronized
C9_Witness ==
    /\ phase = "done"
    /\ synced
    /\ ExitCodeCalls # {}

\* the dotted name of an attribute path, built from the left
RECURSIVE Dotted(_)
Dotted(path) ==
    IF Len(path) = 1 THEN path[1]
    ELSE Dotted(SubSeq(path, 1, Len(path) - 1)) \o <<Dot>> \o path[Len(path)]

\* a pre-order walk by hand: the node's own Vars in declaration order, each
\* with the dotted path from the root, then each child Module in declaration
\* order
RECURSIVE ManualPreorder(_, _)
RECURSIVE ManualFrom(_, _, _, _)
ManualFrom(node, path, i, wantVars) ==
    IF i > Len(node) THEN <<>>
    ELSE LET here == Append(path, node[i].name)
             this == IF wantVars /\ node[i].kind = "Var" THEN <<<<here, Dotted(here)>>>>
                     ELSE IF ~wantVars /\ node[i].kind = "Module"
                     THEN ManualPreorder(node[i].sub, here)
                     ELSE <<>>
         IN  this \o ManualFrom(node, path, i + 1, wantVars)
ManualPreorder(node, path) ==
    ManualFrom(node, path, 1, TRUE) \o ManualFrom(node, path, 1, FALSE)

\* C8: parameters() returns the Vars, tagged with their dotted paths, in the
\* order of a pre-order walk in declaration order, and returns the same at the
\* next call.
C8_ParametersIsPreorder ==
    modOp.op = "parameters" =>
        /\ modOp.ret = ManualPreorder(tree, <<>>)
        /\ modOp.prev # None => modOp.prev[1] = modOp.ret
\* a second call in a row, on a root whose first attribute is a Module holding
\* a Var and whose second attribute is a Var
C8_Witness ==
    /\ modOp.op = "parameters"
    /\ modOp.prev # None
    /\ Len(tree) = 2
    /\ tree[1].kind = "Module"
    /\ tree[2].kind = "Var"
    /\ Len(modOp.ret) = 2

NamesParameter(key) == \E p \in VarPaths(tree) : Dotted(p) = key
AttrPaths ==
    VarPaths(tree) \cup (ModulePaths(tree) \ {<<>>})
    \cup {Append(m, meth) : m \in ModulePaths(tree), meth \in MethodNames}
NonExistent(key) == \A q \in AttrPaths : Dotted(q) # key
MixedCheckpoint(params) ==
    \A i \in 1..Len(params) : NamesParameter(params[i][1]) \/ NonExistent(params[i][1])
FailedKeys(params) == {i \in 1..Len(params) : NonExistent(params[i][1])}

\* C5: load_parameters ends without raising, whatever the checkpoint.
C5_LoadNeverRaises ==
    modOp.op = "load_parameters" => modOp.raised = None

C1_TrainRestoresPreEval ==
    (modOp.op = "train" /\ modOp.afterEval) => stopGrad = modOp.before

====
